---- MODULE Spec2Model ----
(***************************************************************************)
(* Model of the Notion <-> YAML prompt synchroniser:                       *)
(*   src/notion_export.py  (database -> YAML files, with cleanup)          *)
(*   src/notion_import.py  (YAML files -> database, upsert with page map)  *)
(*                                                                         *)
(* Text is modelled as a sequence of one-character strings (slugs, names,  *)
(* paths) or of tokens (templates, where each tag and the newline is one   *)
(* token; every tag token holds its own '<' and '>', so an occurrence of a *)
(* delimiter in a token sequence is an occurrence in the text and back).   *)
(*                                                                         *)
(* Four specifications share the module, one per part of the program:      *)
(*   SpecSlug      slugify applied once and twice                          *)
(*   SpecTemplate  template composed by export, parsed by import           *)
(*   SpecExport    one run of notion_export.main                           *)
(*   SpecImport    consecutive runs of notion_import                       *)
(***************************************************************************)
EXTENDS Integers, Sequences, FiniteSets, TLC

VARIABLES
    \* ---- slugify ----
    slugPc,        \* "input" | "once" | "twice"
    slugIn,        \* text handed to slugify
    slugOut,       \* slugify(slugIn)
    slugOut2,      \* slugify(slugify(slugIn))
    \* ---- composite template ----
    tplPc,         \* "record" | "document" | "parsed"
    sysText,       \* "System Prompt" of the remote record
    usrText,       \* "User Template" of the remote record
    tpl,           \* the document's template field
    edits,         \* number of hand edits made to the document
    sysOut,        \* system_txt recovered by upsert_prompt
    usrOut,        \* user_txt recovered by upsert_prompt
    parseRaised,   \* TRUE when the try block of upsert_prompt raised
    \* ---- import ----
    files,         \* sorted(Path("prompts").rglob("*.yaml")), parsed
    pageMapFile,   \* page_map.json on disk
    pages,         \* the remote collection: pages[id] is the page's properties
    slug_to_id,    \* the in-memory mapping name -> page id
    ipc,           \* "boot" | "loop" | "done" | "failed"
    iExit,         \* exit code of the import process, NoExit while it runs
    idx,           \* index in files of the next document
    run,           \* number of the import run
    calls,         \* remote calls issued by this run, in order
    startMap,      \* slug_to_id as loaded when this run started
    startTitles,   \* titles in the remote collection when this run started
    fileAtStart,   \* page_map.json when this run started
    prevCalls,     \* calls of the previous run
    prevStartMap,  \* startMap of the previous run
    prevStartTitles, \* startTitles of the previous run
    prevExit,      \* exit code of the previous run, NoExit when there is none
    \* ---- export ----
    remote,        \* the collection as the service pages it: remote[k] is
                   \* the results of the k-th query
    disk,          \* the .yaml files under the output root: path -> content
    diskAtStart,   \* disk when the run started
    ePc,           \* "query" | "records" | "cleanup" | "done" | "failed"
                   \* | "crashed"
    eExit,         \* exit code of the export process, NoExit while it runs
    cursor,        \* index of the response the next query returns
    resp,          \* results of the last query
    pos,           \* index in resp of the next record
    retained,      \* the list retained of main
    deleted,       \* paths unlinked by this run
    handled,       \* non-archived records the loop has taken up
    apiError       \* TRUE once a query raised APIResponseError

slugVars == <<slugPc, slugIn, slugOut, slugOut2>>
tplVars  == <<tplPc, sysText, usrText, tpl, edits, sysOut, usrOut, parseRaised>>
impVars  == <<files, pageMapFile, pages, slug_to_id, ipc, iExit, idx, run,
              calls, startMap, startTitles, fileAtStart,
              prevCalls, prevStartMap, prevStartTitles, prevExit>>
expVars  == <<remote, disk, diskAtStart, ePc, eExit, cursor, resp, pos,
              retained, deleted, handled, apiError>>
vars     == <<slugVars, tplVars, impVars, expVars>>

----------------------------------------------------------------------------
(* Bounds of the model *)

MaxLen == 3        \* longest text handed to slugify
MaxText == 2       \* longest system / user text, in tokens
MaxEdits == 1      \* hand edits made to a document before it is imported
MaxFiles == 2      \* documents under prompts/
MaxRuns == 3       \* consecutive import runs
MaxPages == 2      \* responses the collection is paged into
MaxResults == 2    \* records in one response

----------------------------------------------------------------------------
(* Python's str operations on sequences *)

Range(s) == {s[i] : i \in 1..Len(s)}

\* s[a..b] as a sequence (empty when a > b)
Slice(s, a, b) == IF a > b THEN <<>> ELSE SubSeq(s, a, b)

\* s[:n]: the first n elements, all of s when it is shorter
Take(s, n) == IF n >= Len(s) THEN s ELSE Slice(s, 1, n)

\* sep occurs in s at index i
OccursAt(s, sep, i) ==
    /\ i >= 1
    /\ i + Len(sep) - 1 <= Len(s)
    /\ \A k \in 1..Len(sep) : s[i + k - 1] = sep[k]

\* str.find: index of the first occurrence of sep in s, 0 when there is none
Find(s, sep) ==
    IF \E i \in 1..Len(s) : OccursAt(s, sep, i)
    THEN CHOOSE i \in 1..Len(s) :
            /\ OccursAt(s, sep, i)
            /\ \A j \in 1..(i - 1) : ~OccursAt(s, sep, j)
    ELSE 0

Contains(s, sep) == Find(s, sep) # 0

\* str.split(sep, maxsplit): at most maxsplit splits, from the left
RECURSIVE SplitMax(_, _, _)
SplitMax(s, sep, maxsplit) ==
    LET i == Find(s, sep) IN
    IF maxsplit = 0 \/ i = 0
    THEN <<s>>
    ELSE <<Slice(s, 1, i - 1)>>
         \o SplitMax(Slice(s, i + Len(sep), Len(s)), sep, maxsplit - 1)

\* str.split(sep): every non-overlapping occurrence, from the left
Split(s, sep) == SplitMax(s, sep, Len(s))

\* str.replace(old, new): every non-overlapping occurrence, from the left
RECURSIVE Replace(_, _, _)
Replace(s, old, new) ==
    LET i == Find(s, old) IN
    IF i = 0
    THEN s
    ELSE Slice(s, 1, i - 1) \o new
         \o Replace(Slice(s, i + Len(old), Len(s)), old, new)

\* all sequences over alphabet of length at most n
RECURSIVE SeqsUpTo(_, _)
SeqsUpTo(alphabet, n) ==
    IF n = 0
    THEN {<<>>}
    ELSE LET shorter == SeqsUpTo(alphabet, n - 1) IN
         shorter \cup {Append(s, c) : s \in shorter, c \in alphabet}

----------------------------------------------------------------------------
(* notion_export.slugify *)

UPPER == <<"A","B","C","D","E","F","G","H","I","J","K","L","M",
           "N","O","P","Q","R","S","T","U","V","W","X","Y","Z">>
LOWER == <<"a","b","c","d","e","f","g","h","i","j","k","l","m",
           "n","o","p","q","r","s","t","u","v","w","x","y","z">>
DIGITS == {"0","1","2","3","4","5","6","7","8","9"}

\* the character class [a-z0-9]
IsSlugChar(c) == c \in Range(LOWER) \cup DIGITS

LowerChar(c) ==
    IF \E i \in 1..Len(UPPER) : UPPER[i] = c
    THEN LOWER[CHOOSE i \in 1..Len(UPPER) : UPPER[i] = c]
    ELSE c

\* str.lower
Lower(s) == [i \in 1..Len(s) |-> LowerChar(s[i])]

\* re.sub(r"[^a-z0-9]+", "-", s): each maximal run outside the class -> "-"
RECURSIVE SubRuns(_)
SubRuns(s) ==
    IF s = <<>> THEN <<>>
    ELSE IF IsSlugChar(s[1]) THEN <<s[1]>> \o SubRuns(Tail(s))
    ELSE IF Len(s) >= 2 /\ ~IsSlugChar(s[2]) THEN SubRuns(Tail(s))
    ELSE <<"-">> \o SubRuns(Tail(s))

\* str.strip("-")
RECURSIVE LStrip(_)
LStrip(s) == IF s # <<>> /\ s[1] = "-" THEN LStrip(Tail(s)) ELSE s

RECURSIVE RStrip(_)
RStrip(s) ==
    IF s # <<>> /\ s[Len(s)] = "-" THEN RStrip(Slice(s, 1, Len(s) - 1)) ELSE s

Strip(s) == RStrip(LStrip(s))

\* variant of slugify that trims before it substitutes
SlugifyStripFirst(text) == SubRuns(Strip(Lower(text)))

slugify(text) == Strip(SubRuns(Lower(text)))

\* texts handed to slugify: lower case, upper case, digit, separator,
\* blank and slash
SlugAlphabet == {"a", "B", "7", "-", " ", "/"}

InitSlug ==
    /\ slugPc = "input"
    /\ slugIn \in SeqsUpTo(SlugAlphabet, MaxLen)
    /\ slugOut = <<>>
    /\ slugOut2 = <<>>

SlugifyOnce ==
    /\ slugPc = "input"
    /\ slugOut' = slugify(slugIn)
    /\ slugPc' = "once"
    /\ UNCHANGED <<slugIn, slugOut2>>

SlugifyTwice ==
    /\ slugPc = "once"
    /\ slugOut2' = slugify(slugOut)
    /\ slugPc' = "twice"
    /\ UNCHANGED <<slugIn, slugOut>>

----------------------------------------------------------------------------
(* The composite template: extract_properties writes it, upsert_prompt      *)
(* reads it back                                                            *)

SYS_OPEN  == <<"<system>", "\n">>     \* "<system>\n"
SYS_CLOSE == <<"</system>">>          \* "</system>"
USR_OPEN  == <<"<user>", "\n">>       \* "<user>\n"
USR_CLOSE == <<"</user>">>            \* "</user>"
NL        == <<"\n">>

\* tokens a system or user text is made of
TextTokens == {"x", "\n", "<system>", "</system>", "<user>", "</user>"}

\* f"<system>\n{system_prompt}\n</system>\n<user>\n{user_template}\n</user>"
ComposeTemplate(system_prompt, user_template) ==
    SYS_OPEN \o system_prompt \o NL \o SYS_CLOSE \o NL
    \o USR_OPEN \o user_template \o NL \o USR_CLOSE

\* the try block of upsert_prompt:
\*   system_txt = tpl.split("</system>")[0].replace("<system>\n", "")
\*   user_txt   = tpl.split("</user>")[-2].split("<user>\n")[-1]
\* [-2] raises IndexError when the split has one part; the except clause
\* then sets both texts to "".
ParseTemplate(t) ==
    LET bySys == Split(t, SYS_CLOSE)
        byUsr == Split(t, USR_CLOSE)
    IN  IF Len(byUsr) < 2
        THEN [system_txt |-> <<>>, user_txt |-> <<>>, raised |-> TRUE]
        ELSE LET inner == Split(byUsr[Len(byUsr) - 1], USR_OPEN) IN
             [system_txt |-> Replace(bySys[1], SYS_OPEN, <<>>),
              user_txt   |-> inner[Len(inner)],
              raised     |-> FALSE]

\* the form '<system>\n...\n</system>\n<user>\n...\n</user>': the template
\* is the composition of some system text and some user text
WellFormed(t) ==
    \E i \in 1..Len(t) :
        /\ i >= Len(SYS_OPEN) + 2
        /\ i + 5 <= Len(t)
        /\ t = ComposeTemplate(Slice(t, Len(SYS_OPEN) + 1, i - 2),
                               Slice(t, i + 4, Len(t) - 2))

InitTemplate ==
    /\ tplPc = "record"
    /\ sysText \in SeqsUpTo(TextTokens, MaxText)
    /\ usrText \in SeqsUpTo(TextTokens, MaxText)
    /\ tpl = <<>>
    /\ edits = 0
    /\ sysOut = <<>>
    /\ usrOut = <<>>
    /\ parseRaised = FALSE

\* export: extract_properties builds the template of the document
Compose ==
    /\ tplPc = "record"
    /\ tpl' = ComposeTemplate(sysText, usrText)
    /\ tplPc' = "document"
    /\ UNCHANGED <<sysText, usrText, edits, sysOut, usrOut, parseRaised>>

\* the document is a local file: a hand edit removes one token of its
\* template before the import reads it
EditDocument ==
    /\ tplPc = "document"
    /\ edits < MaxEdits
    /\ \E i \in 1..Len(tpl) :
          tpl' = Slice(tpl, 1, i - 1) \o Slice(tpl, i + 1, Len(tpl))
    /\ edits' = edits + 1
    /\ UNCHANGED <<tplPc, sysText, usrText, sysOut, usrOut, parseRaised>>

\* the document has no template key: data.get("template", "") is ""
DropTemplate ==
    /\ tplPc = "document"
    /\ edits < MaxEdits
    /\ tpl # <<>>
    /\ tpl' = <<>>
    /\ edits' = edits + 1
    /\ UNCHANGED <<tplPc, sysText, usrText, sysOut, usrOut, parseRaised>>

\* import: upsert_prompt recovers the two texts
Parse ==
    /\ tplPc = "document"
    /\ LET r == ParseTemplate(tpl) IN
          /\ sysOut' = r.system_txt
          /\ usrOut' = r.user_txt
          /\ parseRaised' = r.raised
    /\ tplPc' = "parsed"
    /\ UNCHANGED <<sysText, usrText, tpl, edits>>

----------------------------------------------------------------------------
(* notion_import.py *)

NoExit == -1       \* the process has not exited
NoPage == 0        \* None: no page id

\* Python truth of a page id (None and "" are false)
Truthy(id) == id # NoPage

EmptyMap == [n \in {} |-> NoPage]

\* the documents found under prompts/: a well-formed one, as the export
\* writes it, and one whose template lost its "</system>"
DocSupportBot ==
    [name     |-> <<"fit", "/", "customer", "/", "support-bot", "@", "1.2.0">>,
     template |-> ComposeTemplate(<<"x">>, <<"x", "\n", "x">>),
     version  |-> "1.2.0"]
DocOldItem ==
    [name     |-> <<"fit", "/", "legacy", "/", "old-item", "@", "0.1.0">>,
     template |-> SYS_OPEN \o <<"x">> \o NL \o NL
                  \o USR_OPEN \o <<"x">> \o NL \o USR_CLOSE,
     version  |-> "0.1.0"]
Docs == {DocSupportBot, DocOldItem}

\* the props dictionary of upsert_prompt (tags are passed through)
BuildProps(data) ==
    LET parsed == ParseTemplate(data.template) IN
    [Name      |-> data.name,
     System    |-> parsed.system_txt,
     User      |-> parsed.user_txt,
     Kategorie |-> Split(data.name, <<"/">>)[2],
     Version   |-> data.version]

\* lines 27-30: the mapping read from page_map.json, {} when the file is
\* missing or is not JSON
LoadMappingEmpty(file) == EmptyMap

LoadMapping(file) == IF file.state = "ok" THEN file.map ELSE EmptyMap

\* slug_to_id.get(name)
MapLookupMiss(map, name) == NoPage

MapLookup(map, name) == IF name \in DOMAIN map THEN map[name] ELSE NoPage

\* slug_to_id[name] = res["id"]
RecordCreatedForgets(map, name, id) == map

RecordCreated(map, name, id) ==
    [n \in DOMAIN map \cup {name} |-> IF n = name THEN id ELSE map[n]]

\* ids of the pages whose title equals the given one
Matching(title) == {id \in 1..Len(pages) : pages[id].Name = title}

\* find_page_by_title: what the call can return. The query succeeds and the
\* id of results[0] is returned (the service chooses the order of several
\* matches), or it returns None for no result; or the query raises
\* APIResponseError, which is caught, and None is returned.
FindPageByTitle(title) ==
    {[ok |-> FALSE, id |-> NoPage]}
    \cup (IF Matching(title) = {}
          THEN {[ok |-> TRUE, id |-> NoPage]}
          ELSE {[ok |-> TRUE, id |-> i] : i \in Matching(title)})

Call(op, name, id, ok) ==
    [op |-> op, file |-> idx, name |-> name, id |-> id, ok |-> ok]

\* except APIResponseError around pages.update / pages.create: sys.exit(2).
\* The process ends inside upsert_prompt; main's write of page_map.json is
\* never reached.
AbortRunAfterSave ==
    /\ ipc' = "failed"
    /\ iExit' = 2
    /\ pageMapFile' = [state |-> "ok", map |-> slug_to_id]
    /\ UNCHANGED <<pages, slug_to_id, idx>>

AbortRun ==
    /\ ipc' = "failed"
    /\ iExit' = 2
    /\ UNCHANGED <<pageMapFile, pages, slug_to_id, idx>>

InitImport ==
    /\ files \in {f \in SeqsUpTo(Docs, MaxFiles) : f # <<>>}
    /\ pageMapFile \in {[state |-> "missing", map |-> EmptyMap],
                        [state |-> "corrupt", map |-> EmptyMap]}
    /\ pages = <<>>
    /\ slug_to_id = EmptyMap
    /\ ipc = "boot"
    /\ iExit = NoExit
    /\ idx = 1
    /\ run = 1
    /\ calls = <<>>
    /\ startMap = EmptyMap
    /\ startTitles = {}
    /\ fileAtStart = pageMapFile
    /\ prevCalls = <<>>
    /\ prevStartMap = EmptyMap
    /\ prevStartTitles = {}
    /\ prevExit = NoExit

\* module level, lines 23-30: the client is built and the mapping loaded
Boot ==
    /\ ipc = "boot"
    /\ slug_to_id' = LoadMapping(pageMapFile)
    /\ startMap' = LoadMapping(pageMapFile)
    /\ startTitles' = {pages[i].Name : i \in 1..Len(pages)}
    /\ fileAtStart' = pageMapFile
    /\ ipc' = "loop"
    /\ idx' = 1
    /\ UNCHANGED <<files, pageMapFile, pages, iExit, run, calls,
                   prevCalls, prevStartMap, prevStartTitles, prevExit>>

\* one iteration of main's loop: upsert_prompt(file)
Upsert ==
    /\ ipc = "loop"
    /\ idx <= Len(files)
    /\ LET data   == files[idx]
           name   == data.name
           props  == BuildProps(data)
           mapped == MapLookup(slug_to_id, name)
       IN
       \E found \in (IF Truthy(mapped) THEN {[ok |-> TRUE, id |-> NoPage]}
                     ELSE FindPageByTitle(name)),
          callOk \in BOOLEAN :
          LET \* page_id = slug_to_id.get(name) or find_page_by_title(name)
              page_id == IF Truthy(mapped) THEN mapped ELSE found.id
              query   == IF Truthy(mapped) THEN <<>>
                         ELSE <<Call("query", name, found.id, found.ok)>>
          IN
          IF Truthy(page_id)
          THEN /\ calls' = calls \o query
                           \o <<Call("update", name, page_id, callOk)>>
               /\ IF callOk
                  THEN /\ pages' = [pages EXCEPT ![page_id] = props]
                       /\ idx' = idx + 1
                       /\ UNCHANGED <<pageMapFile, slug_to_id, ipc, iExit>>
                  ELSE AbortRun
          ELSE /\ calls' = calls \o query
                           \o <<Call("create", name,
                                     IF callOk THEN Len(pages) + 1 ELSE NoPage,
                                     callOk)>>
               /\ IF callOk
                  THEN /\ pages' = Append(pages, props)
                       /\ slug_to_id' =
                             RecordCreated(slug_to_id, name, Len(pages) + 1)
                       /\ idx' = idx + 1
                       /\ UNCHANGED <<pageMapFile, ipc, iExit>>
                  ELSE AbortRun
    /\ UNCHANGED <<files, run, startMap, startTitles, fileAtStart,
                   prevCalls, prevStartMap, prevStartTitles, prevExit>>

\* after the loop, lines 95-96: the mapping is written and the run ends
SaveMapping ==
    /\ ipc = "loop"
    /\ idx > Len(files)
    /\ pageMapFile' = [state |-> "ok", map |-> slug_to_id]
    /\ ipc' = "done"
    /\ iExit' = 0
    /\ UNCHANGED <<files, pages, slug_to_id, idx, run, calls,
                   startMap, startTitles, fileAtStart,
                   prevCalls, prevStartMap, prevStartTitles, prevExit>>

\* the import is started again on the unchanged documents
NextRun ==
    /\ ipc \in {"done", "failed"}
    /\ run < MaxRuns
    /\ run' = run + 1
    /\ ipc' = "boot"
    /\ iExit' = NoExit
    /\ idx' = 1
    /\ slug_to_id' = EmptyMap
    /\ calls' = <<>>
    /\ prevCalls' = calls
    /\ prevStartMap' = startMap
    /\ prevStartTitles' = startTitles
    /\ prevExit' = iExit
    /\ UNCHANGED <<files, pageMapFile, pages, startMap, startTitles,
                   fileAtStart>>

----------------------------------------------------------------------------
(* notion_export.py *)

\* remote records, after notion_rich_text_to_str and get() have read their
\* fields. The first is live, the second has been archived since an earlier
\* export wrote it.
RecSupportBot ==
    [id        |-> "page-1",
     archived  |-> FALSE,
     Name      |-> <<"S","u","p","p","o","r","t"," ","B","o","t">>,
     Kategorie |-> <<"C","u","s","t","o","m","e","r">>,
     Version   |-> <<"1",".","2",".","0">>,
     System    |-> <<"B","e"," ","k","i","n","d",".">>,
     User      |-> <<"H","e","l","l","o","\n","W","o","r","l","d">>]
RecOldItem ==
    [id        |-> "page-2",
     archived  |-> TRUE,
     Name      |-> <<"O","l","d"," ","I","t","e","m">>,
     Kategorie |-> <<"L","e","g","a","c","y">>,
     Version   |-> <<"0",".","1",".","0">>,
     System    |-> <<>>,
     User      |-> <<>>]
Records == {RecSupportBot, RecOldItem}

DescriptionLimit == 100

\* extract_properties, lines 68-91 (tags, quality dimensions, authors,
\* license and the timestamp are carried by the document and not modelled)
ExtractProperties(page) ==
    LET name == IF page.Name # <<>> THEN page.Name
                ELSE <<"u","n","t","i","t","l","e","d">>
        firstLine == SplitMax(page.User, NL, 1)[1]
    IN  [name        |-> <<"f","i","t","/">> \o slugify(page.Kategorie)
                         \o <<"/">> \o slugify(name)
                         \o <<"@">> \o page.Version,
         description |-> IF page.User # <<>>
                         THEN Take(firstLine, DescriptionLimit)
                         ELSE name,
         template    |-> ComposeTemplate(page.System, page.User),
         version     |-> page.Version,
         notion_page_id |-> page.id]

\* write_yaml, lines 95-104: what the call does.
\*   _, filename_with_version = prompt["name"].split("/", 2)
\* unpacks the split into two names and raises ValueError unless it has
\* exactly two parts; so does the split on "@". path.open("w") creates or
\* truncates the file; yaml.dump then reads the global name yaml, which the
\* module never binds (line 134 binds a local of main): NameError.
WriteYaml(prompt) ==
    LET bySlash == SplitMax(prompt.name, <<"/">>, 2) IN
    IF Len(bySlash) # 2
    THEN [raised |-> "ValueError", opened |-> {}, path |-> <<>>]
    ELSE LET byAt == SplitMax(bySlash[2], <<"@">>, 1) IN
         IF Len(byAt) # 2
         THEN [raised |-> "ValueError", opened |-> {}, path |-> <<>>]
         ELSE LET category == Split(prompt.name, <<"/">>)[2]
                  path == <<category, byAt[1] \o <<".yaml">>>>
              IN  [raised |-> "NameError", opened |-> {path}, path |-> path]

\* content of a file opened for writing and not written
EmptyFile == "empty"

\* delete_removed, lines 107-115: what the call can do. Every path of
\* existing that is not in retained is unlinked; an OSError on one of them
\* ends the process with exit code 3, the paths unlinked before it stay
\* removed.
DeleteRemovedKeepsAll(existing, kept) ==
    {[unlinked |-> {}, exit |-> 0]}

DeleteRemoved(existing, kept) ==
    LET doomed == {path \in existing : path \notin Range(kept)} IN
    {[unlinked |-> doomed, exit |-> 0]}
    \cup {[unlinked |-> before, exit |-> 3] :
             before \in {b \in SUBSET doomed : b # doomed}}

\* the path the export gives the document of a record
PathOf(rec) ==
    <<slugify(rec.Kategorie), slugify(rec.Name) \o <<".yaml">>>>

\* files an earlier export left under the output root
Previous == "previous"

InitExport ==
    /\ remote \in {r \in SeqsUpTo(SeqsUpTo(Records, MaxResults), MaxPages) :
                      r # <<>>}
    /\ \E present \in SUBSET {PathOf(rec) : rec \in Records} :
          disk = [path \in present |-> Previous]
    /\ diskAtStart = disk
    /\ ePc = "query"
    /\ eExit = NoExit
    /\ cursor = 1
    /\ resp = <<>>
    /\ pos = 1
    /\ retained = <<>>
    /\ deleted = {}
    /\ handled = <<>>
    /\ apiError = FALSE

\* lines 147-154: client.databases.query returns the next response
Query ==
    /\ ePc = "query"
    /\ resp' = remote[cursor]
    /\ pos' = 1
    /\ ePc' = "records"
    /\ UNCHANGED <<remote, disk, diskAtStart, eExit, cursor, retained,
                   deleted, handled, apiError>>

\* lines 162-164: the query raises APIResponseError; the error is logged
\* and the process ends with exit code 2
QueryErrorFallsThrough ==
    /\ ePc = "query"
    /\ apiError' = TRUE
    /\ ePc' = "cleanup"
    /\ UNCHANGED <<remote, disk, diskAtStart, eExit, cursor, resp, pos,
                   retained, deleted, handled>>

QueryError ==
    /\ ePc = "query"
    /\ apiError' = TRUE
    /\ ePc' = "failed"
    /\ eExit' = 2
    /\ UNCHANGED <<remote, disk, diskAtStart, cursor, resp, pos, retained,
                   deleted, handled>>

\* line 156: an archived record is skipped
SkipArchived ==
    /\ ePc = "records"
    /\ pos <= Len(resp)
    /\ resp[pos].archived
    /\ pos' = pos + 1
    /\ UNCHANGED <<remote, disk, diskAtStart, ePc, eExit, cursor, resp,
                   retained, deleted, handled, apiError>>

\* lines 157-159: a live record is mapped and written. An exception of
\* write_yaml is no APIResponseError: it is not caught, and the interpreter
\* ends with a traceback and exit code 1.
ExportRecord ==
    /\ ePc = "records"
    /\ pos <= Len(resp)
    /\ ~resp[pos].archived
    /\ LET prompt == ExtractProperties(resp[pos])
           out    == WriteYaml(prompt)
       IN  /\ handled' = Append(handled, resp[pos])
           /\ disk' = [path \in DOMAIN disk \cup out.opened |->
                          IF path \in out.opened THEN EmptyFile
                          ELSE disk[path]]
           /\ IF out.raised = "none"
              THEN /\ retained' = retained \o <<out.path>>
                   /\ pos' = pos + 1
                   /\ UNCHANGED <<ePc, eExit>>
              ELSE /\ ePc' = "crashed"
                   /\ eExit' = 1
                   /\ UNCHANGED <<retained, pos>>
    /\ UNCHANGED <<remote, diskAtStart, cursor, resp, deleted, apiError>>

\* lines 160-161 and the loop test: has_more and next_cursor of the response
EndOfResponse ==
    /\ ePc = "records"
    /\ pos > Len(resp)
    /\ IF cursor < Len(remote)
       THEN cursor' = cursor + 1 /\ ePc' = "query"
       ELSE cursor' = cursor /\ ePc' = "cleanup"
    /\ UNCHANGED <<remote, disk, diskAtStart, eExit, resp, pos, retained,
                   deleted, handled, apiError>>

\* lines 166-168: the directory is scanned and delete_removed called
Cleanup ==
    /\ ePc = "cleanup"
    /\ \E out \in DeleteRemoved(DOMAIN disk, retained) :
          /\ disk' = [path \in DOMAIN disk \ out.unlinked |-> disk[path]]
          /\ deleted' = deleted \cup out.unlinked
          /\ eExit' = out.exit
          /\ ePc' = IF out.exit = 0 THEN "done" ELSE "failed"
    /\ UNCHANGED <<remote, diskAtStart, cursor, resp, pos, retained, handled,
                   apiError>>

----------------------------------------------------------------------------
(* Specifications *)

SlugIdle == slugPc = "idle" /\ slugIn = <<>> /\ slugOut = <<>> /\ slugOut2 = <<>>
TplIdle ==
    /\ tplPc = "idle" /\ sysText = <<>> /\ usrText = <<>> /\ tpl = <<>>
    /\ edits = 0 /\ sysOut = <<>> /\ usrOut = <<>> /\ parseRaised = FALSE

ImpIdle ==
    /\ files = <<>> /\ pageMapFile = [state |-> "missing", map |-> EmptyMap]
    /\ pages = <<>> /\ slug_to_id = EmptyMap /\ ipc = "idle"
    /\ iExit = NoExit /\ idx = 1 /\ run = 1 /\ calls = <<>>
    /\ startMap = EmptyMap /\ startTitles = {} /\ fileAtStart = pageMapFile
    /\ prevCalls = <<>> /\ prevStartMap = EmptyMap /\ prevStartTitles = {}
    /\ prevExit = NoExit

ExpIdle ==
    /\ remote = <<>> /\ disk = EmptyMap /\ diskAtStart = EmptyMap
    /\ ePc = "idle" /\ eExit = NoExit /\ cursor = 1 /\ resp = <<>> /\ pos = 1
    /\ retained = <<>> /\ deleted = {} /\ handled = <<>> /\ apiError = FALSE

NextSlug ==
    \/ SlugifyOnce /\ UNCHANGED <<tplVars, impVars, expVars>>
    \/ SlugifyTwice /\ UNCHANGED <<tplVars, impVars, expVars>>

StartSlug == InitSlug /\ TplIdle /\ ImpIdle /\ ExpIdle

SpecSlug == StartSlug /\ [][NextSlug]_vars

NextTemplate ==
    \/ Compose /\ UNCHANGED <<slugVars, impVars, expVars>>
    \/ EditDocument /\ UNCHANGED <<slugVars, impVars, expVars>>
    \/ DropTemplate /\ UNCHANGED <<slugVars, impVars, expVars>>
    \/ Parse /\ UNCHANGED <<slugVars, impVars, expVars>>

StartTemplate == InitTemplate /\ SlugIdle /\ ImpIdle /\ ExpIdle

SpecTemplate == StartTemplate /\ [][NextTemplate]_vars

NextImport ==
    \/ Boot /\ UNCHANGED <<slugVars, tplVars, expVars>>
    \/ Upsert /\ UNCHANGED <<slugVars, tplVars, expVars>>
    \/ SaveMapping /\ UNCHANGED <<slugVars, tplVars, expVars>>
    \/ NextRun /\ UNCHANGED <<slugVars, tplVars, expVars>>

StartImport == InitImport /\ SlugIdle /\ TplIdle /\ ExpIdle

SpecImport == StartImport /\ [][NextImport]_vars

NextExport ==
    \/ Query /\ UNCHANGED <<slugVars, tplVars, impVars>>
    \/ QueryError /\ UNCHANGED <<slugVars, tplVars, impVars>>
    \/ SkipArchived /\ UNCHANGED <<slugVars, tplVars, impVars>>
    \/ ExportRecord /\ UNCHANGED <<slugVars, tplVars, impVars>>
    \/ EndOfResponse /\ UNCHANGED <<slugVars, tplVars, impVars>>
    \/ Cleanup /\ UNCHANGED <<slugVars, tplVars, impVars>>

StartExport == InitExport /\ SlugIdle /\ TplIdle /\ ImpIdle

SpecExport == StartExport /\ [][NextExport]_vars

----------------------------------------------------------------------------
(* Claims about the pure functions *)

\* C7: slugify is idempotent: slugify(slugify(x)) = slugify(x) for every x.
C7_SlugifyIdempotent == slugPc = "twice" => slugOut2 = slugOut

\* slugify was applied twice to a text that it changes
C7_Witness ==
    /\ slugPc = "twice"
    /\ slugOut # slugIn
    /\ slugOut # <<>>
    /\ \E i \in 1..Len(slugIn) : slugIn[i] = "-"

\* C2: for texts holding neither "</system>" nor "</user>", composing the
\* template as the export does and splitting it as the import does gives
\* back exactly the system text and the user text.
C2_RoundTrip ==
    (/\ tplPc = "parsed"
     /\ edits = 0
     /\ ~Contains(sysText, SYS_CLOSE) /\ ~Contains(sysText, USR_CLOSE)
     /\ ~Contains(usrText, SYS_CLOSE) /\ ~Contains(usrText, USR_CLOSE))
    => (sysOut = sysText /\ usrOut = usrText)

\* C9: whenever the template is not of the form
\* '<system>\n...\n</system>\n<user>\n...\n</user>', both recovered texts
\* are the empty string.
C9_MalformedGivesEmpty ==
    (tplPc = "parsed" /\ ~WellFormed(tpl))
    => (sysOut = <<>> /\ usrOut = <<>>)

----------------------------------------------------------------------------
(* Claims about the export *)

\* C1: when an export run finishes with exit code 0, the .yaml files under
\* the output root are exactly the paths in retained, and the cleanup has
\* deleted no path of retained.
C1_DiskEqualsRetained ==
    (ePc = "done" /\ eExit = 0) =>
        /\ DOMAIN disk = Range(retained)
        /\ deleted \cap Range(retained) = {}

\* a run ended with exit code 0 after its cleanup removed a file that an
\* earlier export had left
C1_Witness ==
    /\ ePc = "done"
    /\ eExit = 0
    /\ DOMAIN diskAtStart # {}
    /\ deleted = DOMAIN diskAtStart \ Range(retained)
    /\ deleted # {}

\* the name the claim gives the document of a record
NameOf(rec) ==
    <<"f","i","t","/">> \o slugify(rec.Kategorie) \o <<"/">>
    \o slugify(rec.Name) \o <<"@">> \o rec.Version

\* C4: every non-archived record is written to
\* <output>/<slugify(C)>/<slugify(N)>.yaml with the name
\* fit/<slugify(C)>/<slugify(N)>@V and the first line of the user template
\* as description; the Support Bot record goes to customer/support-bot.yaml.
C4_LiveRecordWritten ==
    \A i \in 1..Len(handled) :
        LET rec == handled[i] IN
        /\ rec = RecSupportBot =>
              PathOf(rec) = <<<<"c","u","s","t","o","m","e","r">>,
                              <<"s","u","p","p","o","r","t","-","b","o","t",
                                ".yaml">>>>
        /\ PathOf(rec) \in DOMAIN disk
        /\ disk[PathOf(rec)] \notin {Previous, EmptyFile}
        /\ disk[PathOf(rec)].name = NameOf(rec)
        /\ disk[PathOf(rec)].description = SplitMax(rec.User, NL, 1)[1]

\* C5: when a page query raises a service error the run ends with exit code
\* 2 and the cleanup never runs: no .yaml file under the output root is
\* deleted in that run, however many responses were fetched before.
C5_ApiErrorDeletesNothing ==
    apiError =>
        /\ ePc = "failed"
        /\ eExit = 2
        /\ deleted = {}
        /\ DOMAIN diskAtStart \subseteq DOMAIN disk

\* the second query of a run raised, with files under the output root that
\* the run had not retained
C5_Witness ==
    /\ apiError
    /\ cursor >= 2
    /\ eExit = 2
    /\ DOMAIN disk \ Range(retained) # {}

----------------------------------------------------------------------------
(* Claims about the import *)

\* indexes of the calls of a log with the given operation, for a file
CallsOfFile(log, op, f) ==
    {i \in 1..Len(log) : log[i].op = op /\ log[i].file = f}

\* indexes of the calls of a log with the given operation, for a name
CallsOfName(log, op, n) ==
    {i \in 1..Len(log) : log[i].op = op /\ log[i].name = n}

\* no other local file carries the name of file f
OnlyFileOfItsName(f) ==
    \A g \in 1..Len(files) : g # f => files[g].name # files[f].name

\* two consecutive runs have both completed with exit code 0
TwoRunsCompleted == run >= 2 /\ ipc = "done" /\ iExit = 0 /\ prevExit = 0

\* the first of the two runs started with no mapping entry for the name of
\* file f and no remote record of that title
FreshInFirstRun(f) ==
    /\ files[f].name \notin DOMAIN prevStartMap
    /\ files[f].name \notin prevStartTitles

\* the first run issued one create and no update for file f; the second
\* issued one update, on the id that create returned, and no create
CreatedThenUpdated(f) ==
    /\ Cardinality(CallsOfFile(prevCalls, "create", f)) = 1
    /\ CallsOfFile(prevCalls, "update", f) = {}
    /\ Cardinality(CallsOfFile(calls, "update", f)) = 1
    /\ CallsOfFile(calls, "create", f) = {}
    /\ \A i \in CallsOfFile(prevCalls, "create", f),
          j \in CallsOfFile(calls, "update", f) :
            prevCalls[i].id # NoPage /\ calls[j].id = prevCalls[i].id

\* C3 as stated: for any document, a run that starts with no mapping entry
\* for its name and no remote record of that title issues exactly one create
\* and no update for it, and the following run, started with the mapping the
\* first persisted, issues exactly one update (on the created id) and no
\* create.
C3_AnyDocument ==
    TwoRunsCompleted =>
        \A f \in 1..Len(files) : FreshInFirstRun(f) => CreatedThenUpdated(f)

\* C3 amended: the same, for a document whose name no other local file
\* carries.
C3_DocumentOfUniqueName ==
    TwoRunsCompleted =>
        \A f \in 1..Len(files) :
            (FreshInFirstRun(f) /\ OnlyFileOfItsName(f))
                => CreatedThenUpdated(f)

\* two completed runs over a document of unique name that was new to the
\* first
C3_Witness ==
    /\ TwoRunsCompleted
    /\ \E f \in 1..Len(files) :
          /\ FreshInFirstRun(f)
          /\ OnlyFileOfItsName(f)
          /\ CallsOfFile(calls, "update", f) # {}

\* a create or update call of the log that failed
FailedWrite(log, i) == log[i].op \in {"create", "update"} /\ ~log[i].ok

\* ids returned by the successful creates of a log
CreatedIds(log) ==
    {log[i].id : i \in {k \in 1..Len(log) : log[k].op = "create" /\ log[k].ok}}

\* ids held by a mapping
MappedIds(map) == {map[n] : n \in DOMAIN map}

\* C6: when a create or update call fails, the run ends with exit code 2,
\* no later document is processed, page_map.json is not written in that
\* run, and the ids created earlier in the run are absent from the mapping
\* the next run loads.
C6_FailureAbortsUnsaved ==
    /\ \A i \in 1..Len(calls) :
          FailedWrite(calls, i) =>
              /\ i = Len(calls)
              /\ ipc = "failed"
              /\ iExit = 2
              /\ idx = calls[i].file
              /\ pageMapFile = fileAtStart
              /\ CreatedIds(calls) \cap MappedIds(pageMapFile.map) = {}
    /\ (prevExit = 2 /\ ipc # "boot") =>
          CreatedIds(prevCalls) \cap MappedIds(startMap) = {}

\* a run created a record, then failed on a later document; the next run has
\* loaded its mapping
C6_Witness ==
    /\ prevExit = 2
    /\ ipc = "loop"
    /\ CreatedIds(prevCalls) # {}
    /\ prevCalls[Len(prevCalls)].file > 1

\* the calls that a step of the loop adds to the log
NewCalls == SubSeq(calls', Len(calls) + 1, Len(calls'))

\* C8: identity resolution. A name the in-memory mapping holds is updated
\* on the mapped id and no title query is issued; otherwise one exact-title
\* query is issued and the id of its first result is updated; when the query
\* has no result or raises a service error a create is attempted, and the
\* lookup error does not end the run.
C8_ResolutionOrder ==
    [][(ipc = "loop" /\ run' = run /\ calls' # calls) =>
        LET name == files[idx].name IN
        IF name \in DOMAIN slug_to_id
        THEN /\ Len(NewCalls) = 1
             /\ NewCalls[1].op = "update"
             /\ NewCalls[1].id = slug_to_id[name]
        ELSE /\ Len(NewCalls) = 2
             /\ NewCalls[1].op = "query"
             /\ NewCalls[1].name = name
             /\ IF NewCalls[1].ok /\ NewCalls[1].id # NoPage
                THEN /\ NewCalls[2].op = "update"
                     /\ NewCalls[2].id = NewCalls[1].id
                     /\ pages[NewCalls[1].id].Name = name
                ELSE /\ NewCalls[2].op = "create"
                     /\ NewCalls[2].ok => ipc' = "loop"
      ]_vars

\* a run updated a mapped name with no query and created a record after its
\* title query raised, and goes on; the run before it updated the page that
\* its title query found
C8_Witness ==
    /\ ipc = "loop"
    /\ \E i \in 1..(Len(calls) - 1) :
          /\ calls[i].op = "query" /\ ~calls[i].ok
          /\ calls[i + 1].op = "create" /\ calls[i + 1].ok
    /\ \E i \in 1..Len(calls) :
          /\ calls[i].op = "update"
          /\ calls[i].name \in DOMAIN startMap
          /\ calls[i].id = startMap[calls[i].name]
          /\ \A j \in 1..Len(calls) :
                calls[j].op = "query" => calls[j].name # calls[i].name
    /\ \E i \in 1..(Len(prevCalls) - 1) :
          /\ prevCalls[i].op = "query" /\ prevCalls[i].ok
          /\ prevCalls[i].id # NoPage
          /\ prevCalls[i + 1].op = "update"
          /\ prevCalls[i + 1].id = prevCalls[i].id

\* at most one create per name in the run; after a successful create the
\* mapping holds the id and every later call for the name is an update of it
C10_OneCreatePerName ==
    /\ \A i \in 1..Len(calls), j \in 1..Len(calls) :
          (calls[i].op = "create" /\ calls[j].op = "create"
           /\ calls[i].name = calls[j].name) => i = j
    /\ \A i \in 1..Len(calls) :
          (calls[i].op = "create" /\ calls[i].ok) =>
              /\ calls[i].name \in DOMAIN slug_to_id
              /\ slug_to_id[calls[i].name] = calls[i].id
              /\ \A j \in (i + 1)..Len(calls) :
                    calls[j].name = calls[i].name =>
                        calls[j].op = "update" /\ calls[j].id = calls[i].id

\* a step of the run keeps every entry the mapping already holds
C10_EntriesKept ==
    (ipc = "loop" /\ run' = run) =>
        \A n \in DOMAIN slug_to_id :
            n \in DOMAIN slug_to_id' /\ slug_to_id'[n] = slug_to_id[n]

\* C10: within one import run at most one create call is issued per name,
\* whatever the number of files of that name and the outcome of the title
\* lookups: once a create succeeds the in-memory mapping holds its id and
\* every later file of that name is an update of that id; and entries the
\* mapping already holds are never overwritten or removed by the run.
C10_SingleCreate == []C10_OneCreatePerName /\ [][C10_EntriesKept]_vars

\* two files of one name in a run: the first was created after its title
\* lookup raised, the second was updated on the created id
C10_Witness ==
    \E i \in 1..Len(calls), j \in 1..Len(calls) :
        /\ i < j
        /\ calls[i].op = "create" /\ calls[i].ok
        /\ i > 1 /\ calls[i - 1].op = "query" /\ ~calls[i - 1].ok
        /\ calls[j].op = "update" /\ calls[j].ok
        /\ calls[j].name = calls[i].name
        /\ calls[j].file # calls[i].file
        /\ calls[j].id = calls[i].id

====
